---- MODULE Spec2Model ----
(***************************************************************************)
(* Model of lcgrandom.py: a linear congruential generator with backward    *)
(* iteration and fast skipping (class LcgRandom).                          *)
(*                                                                         *)
(* Python integers are unbounded, so no width is modelled.  Python's //    *)
(* and % are floor division and floor modulus; for a positive divisor they *)
(* coincide with \div and % of the Integers module.                        *)
(*                                                                         *)
(* A failed Python assert is the exception AssertionError, the raise in    *)
(* reciprocal_mod and pow() with a zero modulus are ValueError.            *)
(***************************************************************************)
EXTENDS Integers, Sequences, FiniteSets, TLC

\* Bounds of the explored inputs.
MaxA == 8
MaxB == 2
MaxM == 7
MaxSkip == 15
MaxBits == 4
MaxMod == 12

VARIABLES
    pc,     \* "new": before LcgRandom(...), "ready": object built, "failed": __init__ raised
    args,   \* the arguments (a, b, m, seed) given to __init__
    self,   \* the attributes of the object that have been assigned so far
    op,     \* name of the last method called
    arg,    \* its argument(s), as a sequence
    x0,     \* self.x when the last method was entered (0 when there was none)
    ret,    \* its return value, as a sequence (<<>> is None / no return)
    err,    \* the exception it raised, or "none"
    pows    \* number of pow() calls the last method made

vars == <<pc, args, self, op, arg, x0, ret, err, pows>>

NoAttrs == [f \in {} |-> 0]

----------------------------------------------------------------------------
\* reciprocal_mod: the loop of the simplified extended Euclidean algorithm.
\* Returns <<x, a>> as they stand when y reaches 0.
RECURSIVE reciprocal_loop(_, _, _, _)
reciprocal_loop(x, y, a, b) ==
    IF y # 0
    THEN reciprocal_loop(y, x % y, b, a - (x \div y) * b)
    ELSE <<x, a>>

\* reciprocal_mod returning the Bezout coefficient without the final "% mod".
reciprocal_mod_noreduce(x, mod) ==
    IF ~(mod > 0 /\ 0 <= x /\ x < mod)
    THEN [err |-> "AssertionError", ret |-> <<>>]
    ELSE LET r == reciprocal_loop(mod, x, 0, 1) IN
         IF r[1] = 1
         THEN [err |-> "none", ret |-> <<r[2]>>]
         ELSE [err |-> "ValueError", ret |-> <<>>]

reciprocal_mod(x, mod) ==
    IF ~(mod > 0 /\ 0 <= x /\ x < mod)
    THEN [err |-> "AssertionError", ret |-> <<>>]
    ELSE LET r == reciprocal_loop(mod, x, 0, 1) IN
         IF r[1] = 1
         THEN [err |-> "none", ret |-> <<r[2] % mod>>]
         ELSE [err |-> "ValueError", ret |-> <<>>]

\* The builtin pow(base, exp, mod) for exp >= 0 and mod >= 0, by square and
\* multiply.  A zero modulus raises ValueError.
RECURSIVE powmod(_, _, _)
powmod(base, exp, mod) ==
    IF exp = 0 THEN 1 % mod
    ELSE LET h == powmod(base, exp \div 2, mod)
             s == (h * h) % mod
         IN IF exp % 2 = 1 THEN (s * base) % mod ELSE s

pow(base, exp, mod) ==
    IF mod = 0
    THEN [err |-> "ValueError", ret |-> <<>>]
    ELSE [err |-> "none", ret |-> <<powmod(base, exp, mod)>>]

----------------------------------------------------------------------------
\* The state functions of next and previous.
next_x(s) == (s.x * s.a + s.b) % s.m

\* previous with the subtraction and the multiplication in the wrong order.
previous_wrongorder(s) == (s.x * s.ainv - s.b) % s.m

\* previous with a remainder that truncates toward zero instead of flooring.
previous_truncmod(s) ==
    LET v == (s.x - s.b) * s.ainv IN
    IF v >= 0 THEN v % s.m ELSE -((-v) % s.m)

previous_x(s) == ((s.x - s.b) * s.ainv) % s.m

\* skip(n): the closed form.  Gives the exception raised (or "none"), the new
\* self.x and the number of pow() calls made.
skip_result(s, n) ==
    LET a == IF n >= 0 THEN s.a ELSE s.ainv
        b == IF n >= 0 THEN s.b ELSE (-s.ainv) * s.b
        k == IF n >= 0 THEN n ELSE -n
        a1 == a - 1
        ma == a1 * s.m
        p1 == pow(a, k, ma)
    IN IF p1.err # "none"
       THEN [err |-> p1.err, x |-> s.x, pows |-> 1]
       ELSE LET y == ((p1.ret[1] - 1) \div a1) * b
                z == pow(a, k, s.m).ret[1] * s.x
            IN [err |-> "none", x |-> (y + z) % s.m, pows |-> 2]

\* randbit comparing with > instead of >=.
randbit_strict(s, x) == x > (s.m \div 2)

\* randbit's comparison, on the state x that next() has just produced.
randbit_value(s, x) == x >= (s.m \div 2)

\* Bitwise or of two naturals.
RECURSIVE BitOr(_, _)
BitOr(u, v) ==
    IF u = 0 THEN v
    ELSE IF v = 0 THEN u
    ELSE 2 * BitOr(u \div 2, v \div 2) + (IF u % 2 = 1 \/ v % 2 = 1 THEN 1 ELSE 0)

\* getrandbits(k): the loop "for i in range(k)", with i iterations left.
\* range(k) is empty for k <= 0.
RECURSIVE getrandbits_loop(_, _, _)
getrandbits_loop(s, i, result) ==
    IF i <= 0
    THEN [x |-> s.x, result |-> result]
    ELSE LET t == [s EXCEPT !.x = next_x(s)]
             bit == IF randbit_value(t, t.x) THEN 1 ELSE 0
         IN getrandbits_loop(t, i - 1, BitOr(result * 2, bit))

----------------------------------------------------------------------------
Init ==
    /\ pc = "new"
    /\ args \in [a : -1..MaxA, b : -1..MaxB, m : -1..MaxM, seed : -1..MaxM]
    /\ self = NoAttrs
    /\ op = "none"
    /\ arg = <<>>
    /\ x0 = 0
    /\ ret = <<>>
    /\ err = "none"
    /\ pows = 0

\* LcgRandom(a, b, m, seed)
init_result(g) ==
    IF ~(g.a > 0) \/ ~(g.b >= 0) \/ ~(g.m > 0) \/ ~(0 <= g.seed /\ g.seed < g.m)
    THEN [err |-> "AssertionError", self |-> NoAttrs]
    ELSE LET r == reciprocal_mod(g.a, g.m) IN
         IF r.err # "none"
         THEN [err |-> r.err, self |-> [a |-> g.a]]
         ELSE [err |-> "none",
               self |-> [a |-> g.a, ainv |-> r.ret[1], b |-> g.b, m |-> g.m, x |-> g.seed]]

__init__ ==
    /\ pc = "new"
    /\ LET r == init_result(args) IN
       /\ self' = r.self
       /\ err' = r.err
       /\ pc' = IF r.err = "none" THEN "ready" ELSE "failed"
    /\ op' = "__init__"
    /\ arg' = <<args.a, args.b, args.m, args.seed>>
    /\ x0' = 0
    /\ ret' = <<>>
    /\ pows' = 0
    /\ UNCHANGED args

get_state ==
    /\ pc = "ready"
    /\ op' = "get_state"
    /\ arg' = <<>>
    /\ x0' = self.x
    /\ ret' = <<self.x>>
    /\ err' = "none"
    /\ pows' = 0
    /\ UNCHANGED <<pc, args, self>>

next ==
    /\ pc = "ready"
    /\ self' = [self EXCEPT !.x = next_x(self)]
    /\ op' = "next"
    /\ arg' = <<>>
    /\ x0' = self.x
    /\ ret' = <<>>
    /\ err' = "none"
    /\ pows' = 0
    /\ UNCHANGED <<pc, args>>

previous ==
    /\ pc = "ready"
    /\ self' = [self EXCEPT !.x = previous_x(self)]
    /\ op' = "previous"
    /\ arg' = <<>>
    /\ x0' = self.x
    /\ ret' = <<>>
    /\ err' = "none"
    /\ pows' = 0
    /\ UNCHANGED <<pc, args>>

skip ==
    /\ pc = "ready"
    /\ \E n \in -MaxSkip..MaxSkip :
        LET r == skip_result(self, n) IN
        /\ self' = [self EXCEPT !.x = r.x]
        /\ err' = r.err
        /\ pows' = r.pows
        /\ arg' = <<n>>
    /\ op' = "skip"
    /\ x0' = self.x
    /\ ret' = <<>>
    /\ UNCHANGED <<pc, args>>

randbit ==
    /\ pc = "ready"
    /\ LET t == [self EXCEPT !.x = next_x(self)] IN
       /\ self' = t
       /\ ret' = <<randbit_value(t, t.x)>>
    /\ op' = "randbit"
    /\ arg' = <<>>
    /\ x0' = self.x
    /\ err' = "none"
    /\ pows' = 0
    /\ UNCHANGED <<pc, args>>

getrandbits ==
    /\ pc = "ready"
    /\ \E k \in -1..MaxBits :
        LET r == getrandbits_loop(self, k, 0) IN
        /\ self' = [self EXCEPT !.x = r.x]
        /\ ret' = <<r.result>>
        /\ arg' = <<k>>
    /\ op' = "getrandbits"
    /\ x0' = self.x
    /\ err' = "none"
    /\ pows' = 0
    /\ UNCHANGED <<pc, args>>

Next ==
    \/ __init__
    \/ get_state
    \/ next
    \/ previous
    \/ skip
    \/ randbit
    \/ getrandbits

Spec == Init /\ [][Next]_vars

----------------------------------------------------------------------------
\* The static method LcgRandom.reciprocal_mod(x, mod) on its own: the inputs
\* are drawn at the start and the call is then made; no object is involved.
InitStatic ==
    /\ pc = "static"
    /\ args \in [x : -1..MaxMod, mod : 0..MaxMod]
    /\ self = NoAttrs
    /\ op = "none"
    /\ arg = <<>>
    /\ x0 = 0
    /\ ret = <<>>
    /\ err = "none"
    /\ pows = 0

reciprocal_mod_call ==
    /\ pc = "static"
    /\ op = "none"
    /\ LET r == reciprocal_mod(args.x, args.mod) IN
       /\ ret' = r.ret
       /\ err' = r.err
    /\ arg' = <<args.x, args.mod>>
    /\ op' = "reciprocal_mod"
    /\ x0' = 0
    /\ pows' = 0
    /\ UNCHANGED <<pc, args, self>>

NextStatic == reciprocal_mod_call

SpecStatic == InitStatic /\ [][NextStatic]_vars

----------------------------------------------------------------------------
\* Vocabulary of the properties.

\* gcd(u, v) = 1, by divisors (v > 0, u >= 0).
Coprime(u, v) == \A d \in 2..v : ~(u % d = 0 /\ v % d = 0)

\* The engine as it was when the last method was entered.
Entered == [self EXCEPT !.x = x0]

\* n sequential next() calls (n >= 0) or -n sequential previous() calls (n < 0).
RECURSIVE Steps(_, _)
Steps(s, n) ==
    IF n = 0 THEN s.x
    ELSE IF n > 0 THEN Steps([s EXCEPT !.x = next_x(s)], n - 1)
    ELSE Steps([s EXCEPT !.x = previous_x(s)], n + 1)

\* The four argument checks of the constructor.
ArgsInRange ==
    /\ args.a > 0
    /\ args.b >= 0
    /\ args.m > 0
    /\ 0 <= args.seed /\ args.seed < args.m

\* C1: skip(n) leaves the engine in the state reached by n sequential next()
\* calls (n >= 0) or |n| sequential previous() calls (n < 0), for every valid
\* engine and every n, without raising.
C1_SkipEqualsSteps ==
    (pc = "ready" /\ op = "skip")
        => (err = "none" /\ self.x = Steps(Entered, arg[1]))

\* C2: previous is the two-sided inverse of next: after next(), previous()
\* would restore the state next() started from, and after previous(), next()
\* would restore the state previous() started from.
C2_PreviousInvertsNext ==
    /\ (pc = "ready" /\ op = "next") => previous_x(self) = x0
    /\ (pc = "ready" /\ op = "previous") => next_x(self) = x0

C2_Witness ==
    /\ pc = "ready" /\ op = "previous"
    /\ self.a > 1 /\ self.b > 0 /\ x0 < self.b /\ self.x # x0

\* C3: for every a > 0, b >= 0, m > 0, 0 <= seed < m with gcd(a, m) = 1,
\* construction succeeds with x = seed, 0 <= ainv < m and a * ainv = 1 (mod m).
C3_ConstructSucceeds ==
    (op = "__init__" /\ ArgsInRange /\ Coprime(args.a, args.m))
        => /\ pc = "ready" /\ err = "none"
           /\ self.x = args.seed
           /\ self.ainv \in 0..(args.m - 1)
           /\ (args.a * self.ainv) % args.m = 1 % args.m

\* C4: construction fails with AssertionError (InvalidParameterError) when one
\* of the four argument checks fails, and with ValueError (NoInverseError)
\* when they pass but gcd(a, m) # 1.
C4_ConstructErrors ==
    op = "__init__"
        => /\ ~ArgsInRange => (pc = "failed" /\ err = "AssertionError")
           /\ (ArgsInRange /\ ~Coprime(args.a, args.m))
                 => (pc = "failed" /\ err = "ValueError")

\* C5: with multiplier a = 1, skip(n) raises nothing and sets the state to
\* (x0 + N*B) mod m, N = |n|, B = b for n >= 0 and (-b) mod m for n < 0.
C5_SkipMultiplierOne ==
    (pc = "ready" /\ op = "skip" /\ self.a = 1)
        => LET n == arg[1]
               N == IF n >= 0 THEN n ELSE -n
               B == IF n >= 0 THEN self.b ELSE (-self.b) % self.m
           IN err = "none" /\ self.x = (x0 + N * B) % self.m

\* C6: in every state of a constructed engine, 0 <= x < m.
C6_StateInRange ==
    pc = "ready" => (0 <= self.x /\ self.x < self.m)

C6_Witness ==
    /\ pc = "ready" /\ op = "previous"
    /\ (x0 - self.b) * self.ainv < 0
    /\ self.x > 0

\* C7: skip(0) leaves the state unchanged, raises nothing and makes no
\* modular exponentiation.
C7_SkipZeroNoop ==
    (pc = "ready" /\ op = "skip" /\ arg[1] = 0)
        => (err = "none" /\ self.x = x0 /\ pows = 0)

\* C8: getrandbits(k) with k < 0 raises AssertionError
\* (InvalidParameterError) and returns nothing.
C8_NegativeBitsRaises ==
    (pc = "ready" /\ op = "getrandbits" /\ arg[1] < 0)
        => (err = "AssertionError" /\ ret = <<>>)

\* C9: for mod > 0 and 0 <= x < mod, reciprocal_mod(x, mod) returns the
\* unique y in [0, mod) with x*y = 1 (mod mod) when gcd(x, mod) = 1, and
\* raises ValueError (NoInverseError), returning nothing, otherwise.
C9_ReciprocalMod ==
    (op = "reciprocal_mod" /\ arg[2] > 0 /\ 0 <= arg[1] /\ arg[1] < arg[2])
        => LET x == arg[1]
               mod == arg[2]
           IN IF Coprime(x, mod)
              THEN /\ err = "none"
                   /\ Len(ret) = 1
                   /\ ret[1] \in 0..(mod - 1)
                   /\ \A y \in 0..(mod - 1) :
                        ((x * y) % mod = 1 % mod) <=> (y = ret[1])
              ELSE err = "ValueError" /\ ret = <<>>

C9_Witness ==
    /\ op = "reciprocal_mod" /\ err = "none"
    /\ arg[1] > 1
    /\ ret[1] > arg[2] \div 2

\* C10: getrandbits(k), k >= 0, advances the state by exactly k next() steps
\* and returns the integer in [0, 2^k) whose i-th most significant bit is 1
\* iff the state after the i-th step is >= floor(m/2); for k = 0 it returns 0
\* and leaves the state unchanged.
C10_GetRandBits ==
    (pc = "ready" /\ op = "getrandbits" /\ arg[1] >= 0)
        => LET k == arg[1] IN
           /\ err = "none"
           /\ self.x = Steps(Entered, k)
           /\ ret[1] \in 0..(2^k - 1)
           /\ \A i \in 1..k :
                ((ret[1] \div 2^(k - i)) % 2 = 1)
                    <=> (Steps(Entered, i) >= self.m \div 2)
           /\ (k = 0) => (ret[1] = 0 /\ self.x = x0)

C10_Witness ==
    /\ pc = "ready" /\ op = "getrandbits" /\ arg[1] >= 2
    /\ ret[1] > 0 /\ ret[1] < 2^arg[1] - 1
    /\ self.x # x0
    /\ \E i \in 1..arg[1] : Steps(Entered, i) = self.m \div 2

====
